---- MODULE Spec2Model ----
(***************************************************************************)
(* A model of ceranco/snake-rs: the Snake state machine                    *)
(* (src/src/entities.rs), the grid and direction primitives                *)
(* (src/src/primitives.rs) and the Game session that owns snake and food   *)
(* (src/src/main.rs).                                                      *)
(*                                                                         *)
(* These specifications are checked:                                       *)
(*   SpecSnake  the public API of Snake (new, set_direction, update) called*)
(*              in any order on the program's 30 x 20 grid, for a bounded  *)
(*              number of ticks;                                           *)
(*   Spec       the Game (update, key_down_event,                          *)
(*              gamepad_button_down_event, restart, food placement) on a   *)
(*              scaled-down torus, because food placement samples every    *)
(*              cell of the grid;                                          *)
(*   SpecMove   GridPosition::new_from_move on the program's grid;         *)
(*   SpecDraw   DrawParam::from for every sprite;                          *)
(*   SpecFoodFair  the sampling loop of generate_food_position, under fair *)
(*              sampling.                                                  *)
(* GRID_SIZE is a compile-time constant of the program; the model carries  *)
(* it as a variable that no action changes, so that each specification     *)
(* fixes it in its initial state.                                          *)
(***************************************************************************)
EXTENDS Integers, Sequences, FiniteSets

VARIABLES
    GRID_SIZE,           \* primitives.rs:11, <<width, height>>
    head,                \* Snake.head: [position, sprite]
    body,                \* Snake.body: sequence of segments, front first
    tail,                \* Snake.tail: [position, sprite]
    direction,           \* Snake.direction
    previous_direction,  \* Snake.previous_direction
    next_direction,      \* Snake.next_direction: a Direction or None
    food,                \* Game.food: the position of the food
    game_over,           \* Game.game_over
    update_segment,      \* Game.update_segment, in 1/MILLIS_PER_UPDATE
    elapsed,             \* Instant::now() - Game.last_update in ms, as of the
                         \* last reading of the clock
    quit,                \* event::quit was requested
    pos,                 \* the GridPosition a primitive works on: the argument
                         \* of new_from_move, the sample of
                         \* generate_food_position; None when none is running
    ret,                 \* history: the last call made and what it returned
    log                  \* history: one record per Snake::update of SpecSnake

snake == <<head, body, tail, direction, previous_direction, next_direction>>
vars == <<GRID_SIZE, head, body, tail, direction, previous_direction,
          next_direction, food, game_over, update_segment, elapsed, quit,
          pos, ret, log>>

(***************************************************************************)
(* Bounds of the model and constants of the program.                       *)
(***************************************************************************)
\* the program's grid (primitives.rs:11), used by SpecSnake
GridWidth == 30
GridHeight == 20
\* the scaled-down grid of the Game specification
GameGridWidth == 2
GameGridHeight == 2
\* SpecSnake stops after this many Snake::update calls
MaxTicks == 5
\* Spec stops the snake from growing past this chain length
MaxLen == 4
\* SpecMove applies new_from_move this many times to one position
MaxMoves == 30
\* primitives.rs:30-32: (1000.0 / 8.0) as u64
MILLIS_PER_UPDATE == 125
\* the clock readings of Spec, in ms since last_update: one short of the
\* tick period, the period itself, and one more than two periods
ShortWait == 100
LongWait == 300

None == "None"

(***************************************************************************)
(* primitives.rs                                                           *)
(***************************************************************************)
Direction == {"Left", "Right", "Up", "Down"}

inverse(d) ==
    CASE d = "Up" -> "Down"
      [] d = "Down" -> "Up"
      [] d = "Left" -> "Right"
      [] d = "Right" -> "Left"

\* Rust's % on integers: the remainder truncated toward zero
Rem(a, n) == IF a >= 0 THEN a % n ELSE -((-a) % n)

\* mutant: the remainder is taken once, without adding n
modulo_signed_rem_only(a, n) == Rem(a, n)

modulo_signed(a, n) == Rem(Rem(a, n) + n, n)

GridPosition(x, y) == [x |-> x, y |-> y]

new_from_move(position, d) ==
    CASE d = "Up" ->
           GridPosition(position.x, modulo_signed(position.y - 1, GRID_SIZE[2]))
      [] d = "Down" ->
           GridPosition(position.x, modulo_signed(position.y + 1, GRID_SIZE[2]))
      [] d = "Left" ->
           GridPosition(modulo_signed(position.x - 1, GRID_SIZE[1]), position.y)
      [] d = "Right" ->
           GridPosition(modulo_signed(position.x + 1, GRID_SIZE[1]), position.y)

\* the values GridPosition::random(GRID_SIZE.0, GRID_SIZE.1) can return
random == {GridPosition(x, y) : x \in 0..(GRID_SIZE[1] - 1), y \in 0..(GRID_SIZE[2] - 1)}

\* the keys the program tells apart; every other key of ggez's KeyCode is
\* handled as Return is while the game is running
KeyCode == {"Up", "Down", "Left", "Right", "Return", "Escape"}

from_keycode(keycode) == IF keycode \in Direction THEN keycode ELSE None

\* the buttons the program tells apart
Button == {"DPadUp", "DPadDown", "DPadLeft", "DPadRight", "Start", "Select"}

from_button(button) ==
    CASE button = "DPadUp" -> "Up"
      [] button = "DPadDown" -> "Down"
      [] button = "DPadLeft" -> "Left"
      [] button = "DPadRight" -> "Right"
      [] OTHER -> None

Segment(position, sprite) == [position |-> position, sprite |-> sprite]

\* the sprites: <<"Head", d>>, <<"Segment", src, tgt>>, <<"Tail", d>>,
\* <<"Rabit">> and <<"Grass">>
Sprite ==
    {<<"Head", d>> : d \in Direction}
        \cup {<<"Segment", a, b>> : a \in Direction, b \in Direction}
        \cup {<<"Tail", d>> : d \in Direction}
        \cup {<<"Rabit">>, <<"Grass">>}

\* a region of the sprite sheet, in hundredths of its width and height
Rect(x, y, w, h) == <<x, y, w, h>>

\* the outcome of a call that panics
Panic == <<"panic">>

\* mutant: the region depends on the order of the two directions
Segment_src_ordered(src, tgt) ==
    CASE <<src, tgt>> = <<"Left", "Right">> -> Rect(25, 75, 25, 25)
      [] <<src, tgt>> = <<"Right", "Left">> -> Rect(0, 75, 25, 25)
      [] <<src, tgt>> \in {<<"Up", "Down">>, <<"Down", "Up">>} -> Rect(0, 75, 25, 25)
      [] <<src, tgt>> \in {<<"Up", "Right">>, <<"Right", "Up">>} -> Rect(0, 50, 25, 25)
      [] <<src, tgt>> \in {<<"Down", "Right">>, <<"Right", "Down">>} -> Rect(25, 50, 25, 25)
      [] <<src, tgt>> \in {<<"Left", "Down">>, <<"Down", "Left">>} -> Rect(50, 50, 25, 25)
      [] <<src, tgt>> \in {<<"Left", "Up">>, <<"Up", "Left">>} -> Rect(75, 50, 25, 25)
      [] OTHER -> Panic

\* the arm of DrawParam::from for Sprite::Segment(src, tgt)
Segment_src(src, tgt) ==
    CASE <<src, tgt>> \in {<<"Left", "Right">>, <<"Right", "Left">>} -> Rect(25, 75, 25, 25)
      [] <<src, tgt>> \in {<<"Up", "Down">>, <<"Down", "Up">>} -> Rect(0, 75, 25, 25)
      [] <<src, tgt>> \in {<<"Up", "Right">>, <<"Right", "Up">>} -> Rect(0, 50, 25, 25)
      [] <<src, tgt>> \in {<<"Down", "Right">>, <<"Right", "Down">>} -> Rect(25, 50, 25, 25)
      [] <<src, tgt>> \in {<<"Left", "Down">>, <<"Down", "Left">>} -> Rect(50, 50, 25, 25)
      [] <<src, tgt>> \in {<<"Left", "Up">>, <<"Up", "Left">>} -> Rect(75, 50, 25, 25)
      [] OTHER -> Panic

\* the src of DrawParam::from(&Sprite), or Panic
DrawParam_src(sprite) ==
    CASE sprite[1] = "Head" ->
           (CASE sprite[2] = "Right" -> Rect(25, 0, 25, 25)
              [] sprite[2] = "Up" -> Rect(0, 0, 25, 25)
              [] sprite[2] = "Left" -> Rect(75, 0, 25, 25)
              [] sprite[2] = "Down" -> Rect(50, 0, 25, 25))
      [] sprite[1] = "Segment" -> Segment_src(sprite[2], sprite[3])
      [] sprite[1] = "Tail" ->
           (CASE sprite[2] = "Up" -> Rect(0, 25, 25, 25)
              [] sprite[2] = "Right" -> Rect(25, 25, 25, 25)
              [] sprite[2] = "Down" -> Rect(50, 25, 25, 25)
              [] sprite[2] = "Left" -> Rect(75, 25, 25, 25))
      [] sprite[1] = "Rabit" -> Rect(50, 75, 25, 25)
      [] sprite[1] = "Grass" -> Rect(75, 75, 25, 25)

\* DrawParam::from(&PositionedSprite): <<src, dest>>, or Panic
DrawParam_from(ps) ==
    IF DrawParam_src(ps.sprite) = Panic THEN Panic
    ELSE <<DrawParam_src(ps.sprite), ps.position>>

(***************************************************************************)
(* entities.rs: Snake                                                      *)
(***************************************************************************)
\* the fields of Snake::new(position), in the order of `snake`
Snake_new(position) ==
    <<Segment(position, <<"Head", "Right">>),
      <<>>,
      Segment(new_from_move(position, "Left"), <<"Tail", "Right">>),
      "Right", "Right", None>>

\* mutant: the request is never validated
is_valid_always(dir, requested) == TRUE

is_valid(dir, requested) == inverse(dir) # requested

\* mutant: every valid request overwrites `direction` at once
applies_now_always(prev, dir) == TRUE

\* mutant: every valid request is buffered
applies_now_never(prev, dir) == FALSE

\* whether set_direction writes `direction` (else it writes `next_direction`)
applies_now(prev, dir) == prev = dir

\* what Snake::set_direction(requested) returns
set_direction_returns(requested) ==
    IF is_valid(direction, requested) THEN "Ok" ELSE "LogicError"

\* mutant: an accepted request also overwrites the direction of the last
\* tick
set_direction_and_previous(requested) ==
    IF is_valid(direction, requested)
    THEN /\ direction' = requested
         /\ previous_direction' = requested
         /\ UNCHANGED <<head, body, tail, next_direction>>
    ELSE UNCHANGED snake

\* Snake::set_direction(requested) on the snake variables
set_direction(requested) ==
    IF is_valid(direction, requested)
    THEN /\ IF applies_now(previous_direction, direction)
            THEN /\ direction' = requested
                 /\ UNCHANGED next_direction
            ELSE /\ next_direction' = requested
                 /\ UNCHANGED direction
         /\ UNCHANGED <<head, body, tail, previous_direction>>
    ELSE UNCHANGED snake

Positions(segs) == {segs[i].position : i \in 1..Len(segs)}

segments == Positions(body) \cup {head.position}

\* mutant: the head never collides with the body
eats_self_never(h, b) == FALSE

\* mutant: the cell the tail is about to leave counts as a collision
eats_self_with_old_tail(h, b) ==
    \/ \E i \in 1..Len(b) : b[i].position = h.position
    \/ tail.position = h.position

eats_self(h, b) == \E i \in 1..Len(b) : b[i].position = h.position

\* mutant: a collision with the body takes precedence over the food
eats_food_unless_self(h, f) == h.position = f /\ ~eats_self(h, body)

eats_food(h, f) == h.position = f

\* the body after update's push_front of the vacated head cell
pushed_body ==
    <<Segment(head.position,
              <<"Segment", inverse(previous_direction), direction>>)>> \o body

new_head == Segment(new_from_move(head.position, direction), <<"Head", direction>>)

\* mutant: the buffered request is dropped instead of committed
committed_never(dir, next) == dir

\* the direction cache after update
committed(dir, next) == IF next # None THEN next ELSE dir

\* mutant: the new tail points where the popped segment came from
new_tail_from_src(b) == Segment(b[Len(b)].position, <<"Tail", b[Len(b)].sprite[2]>>)

\* the segment update turns into the tail when no food is eaten
new_tail(b) == Segment(b[Len(b)].position, <<"Tail", b[Len(b)].sprite[3]>>)

\* mutant: the last body segment is not removed
pop_back_nothing(b) == b

pop_back(b) == SubSeq(b, 1, Len(b) - 1)

\* entities.rs:134: pop_back().expect(..) finds the body empty
pop_back_panics(b) == Len(b) = 0

\* entities.rs:135-138: the popped segment's sprite is no Sprite::Segment
new_tail_panics(b) == b[Len(b)].sprite[1] # "Segment"

\* what Snake::update(food) returns
Snake_update_returns(f) ==
    IF eats_food(new_head, f) THEN "Food"
    ELSE IF eats_self(new_head, pop_back(pushed_body)) THEN "Itself"
    ELSE None

\* Snake::update(food) on the snake variables
Snake_update(f) ==
    /\ head' = new_head
    /\ previous_direction' = direction
    /\ direction' = committed(direction, next_direction)
    /\ next_direction' = None
    /\ IF eats_food(new_head, f)
       THEN /\ body' = pushed_body
            /\ tail' = tail
       ELSE /\ body' = pop_back(pushed_body)
            /\ tail' = new_tail(pushed_body)

Outcome == {"Food", "Itself", None}

ChainLen == 1 + Len(body) + 1

Ret(op, dir, res, first, before) ==
    [op |-> op, dir |-> dir, res |-> res, first |-> first, before |-> before]

(***************************************************************************)
(* SpecSnake: the API of Snake, called in any order.                       *)
(***************************************************************************)
StartPositions == {GridPosition(3, 5)}

InitSnake ==
    /\ GRID_SIZE = <<GridWidth, GridHeight>>
    /\ \E p \in StartPositions :
        /\ head = Snake_new(p)[1]
        /\ body = Snake_new(p)[2]
        /\ tail = Snake_new(p)[3]
        /\ direction = Snake_new(p)[4]
        /\ previous_direction = Snake_new(p)[5]
        /\ next_direction = Snake_new(p)[6]
    /\ food = GridPosition(GRID_SIZE[1] \div 2, GRID_SIZE[2] \div 2)
    /\ game_over = FALSE
    /\ update_segment = 0
    /\ elapsed = 0
    /\ quit = FALSE
    /\ pos = None
    /\ ret = Ret("new", None, None, FALSE, None)
    /\ log = <<>>

CallSetDirection ==
    \E d \in Direction :
        /\ set_direction(d)
        /\ ret' = Ret("set_direction", d, set_direction_returns(d),
                      ret.op # "set_direction", next_direction)
        /\ UNCHANGED <<GRID_SIZE, food, game_over, update_segment, elapsed, quit,
                       pos, log>>

\* the food handed to update lies on the cell ahead of the head or on the
\* cell the head leaves
FoodArgs == {new_head.position, head.position}

CallUpdate ==
    /\ Len(log) < MaxTicks
    /\ \E f \in FoodArgs :
        /\ Snake_update(f)
        /\ food' = f
        /\ ret' = Ret("update", None, Snake_update_returns(f), FALSE, None)
        /\ log' = Append(log, [moved |-> direction,
                                ate |-> Snake_update_returns(f)])
    /\ UNCHANGED <<GRID_SIZE, game_over, update_segment, elapsed, quit, pos>>

NextSnake == CallSetDirection \/ CallUpdate

SpecSnake == InitSnake /\ [][NextSnake]_vars

(***************************************************************************)
(* Properties of SpecSnake.                                                *)
(***************************************************************************)
IsSetDirection == ret'.op = "set_direction"

IsUpdate == ret'.op = "update"

Last(s) == s[Len(s)]

AllPositions == Positions(body) \cup {head.position, tail.position}

InGrid(p) ==
    /\ p.x \in 0..(GRID_SIZE[1] - 1)
    /\ p.y \in 0..(GRID_SIZE[2] - 1)

\* C1: whatever set_direction calls are made between ticks, the direction
\* the head moves in on a tick is never the inverse of the direction it
\* moved in on the preceding tick.
C1_NoReversal ==
    [][(IsUpdate /\ log # <<>>)
         => Last(log').moved # inverse(Last(log).moved)]_vars

\* C1 witness: two ticks, Up then Left, with Down (the inverse of the first
\* move) committed from the buffer by the second tick.
C1_Witness ==
    /\ Len(log) = 2
    /\ log[1].moved = "Up"
    /\ log[2].moved = "Left"
    /\ direction = "Down"
    /\ ret.op = "update"

\* C2: set_direction(d) with d the inverse of the committed direction
\* returns LogicError and changes no field of the snake.
C2_ReversalRejected ==
    [][(IsSetDirection /\ ret'.dir = inverse(direction))
         => (ret'.res = "LogicError" /\ UNCHANGED snake)]_vars

\* C2 witness: committed Right, set_direction(Left) was rejected.
C2_Witness ==
    /\ ret.op = "set_direction"
    /\ ret.dir = "Left"
    /\ ret.res = "LogicError"
    /\ direction = "Right"

\* the state of a fresh snake after exactly one call, set_direction(Up)
C3_AfterUp ==
    /\ log = <<>>
    /\ ret.op = "set_direction"
    /\ ret.dir = "Up"
    /\ ret.first

\* C3 as stated: from a fresh snake, set_direction(Up) then
\* set_direction(Down) before any tick: the second call succeeds and leaves
\* Down pending, and the tick commits Down.
C3_Original ==
    [][/\ (C3_AfterUp /\ IsSetDirection /\ ret'.dir = "Down")
            => (ret'.res = "Ok" /\ next_direction' = "Down")
       /\ (log = <<>> /\ ret.op = "set_direction" /\ ret.dir = "Down"
             /\ ret.res = "Ok" /\ next_direction = "Down" /\ IsUpdate)
            => direction' = "Down"]_vars

\* the state after the second call of the scenario was rejected
C3_DownRejected ==
    /\ log = <<>>
    /\ ret.op = "set_direction"
    /\ ret.dir = "Down"
    /\ ret.res = "LogicError"
    /\ ~ret.first
    /\ direction = "Up"
    /\ previous_direction = "Right"
    /\ next_direction = None

\* C3 amended: the first call is applied at once (direction becomes Up,
\* nothing pending), so set_direction(Down) is the inverse of the committed
\* direction: it returns LogicError and changes nothing, and the tick that
\* follows moves the head Up and leaves direction Up.
C3_Amended ==
    [][/\ C3_AfterUp => (direction = "Up" /\ next_direction = None)
       /\ (C3_AfterUp /\ IsSetDirection /\ ret'.dir = "Down")
            => (ret'.res = "LogicError" /\ UNCHANGED snake)
       /\ (C3_DownRejected /\ IsUpdate)
            => (Last(log').moved = "Up" /\ direction' = "Up")]_vars

\* C3 witness: Up applied, then Down rejected, before any tick.
C3_Witness == C3_DownRejected /\ head.sprite = <<"Head", "Right">>

\* no set_direction call since the last completed tick, nothing pending
NoPending == ret.op \in {"new", "update"} /\ next_direction = None

\* C4 as stated: a valid request made with nothing pending since the last
\* tick is written to direction at once, and a tick that follows at once
\* moves the head in that direction.
C4_Original ==
    [][/\ (NoPending /\ IsSetDirection /\ ret'.dir # inverse(direction))
            => direction' = ret'.dir
       /\ (ret.op = "set_direction" /\ ret.first /\ ret.before = None
             /\ ret.res = "Ok" /\ IsUpdate)
            => Last(log').moved = ret.dir]_vars

\* C4 amended: the same, provided the last tick did not commit a buffered
\* turn (direction = previous_direction); a first valid request that left
\* nothing pending was made in such a state.  When the last tick did commit
\* a buffered turn, the request is buffered and direction is unchanged.
C4_Amended ==
    [][/\ (NoPending /\ direction = previous_direction
             /\ IsSetDirection /\ ret'.dir # inverse(direction))
            => (direction' = ret'.dir /\ next_direction' = None)
       /\ (NoPending /\ direction # previous_direction
             /\ IsSetDirection /\ ret'.dir # inverse(direction))
            => (direction' = direction /\ next_direction' = ret'.dir)
       /\ (ret.op = "set_direction" /\ ret.first /\ ret.before = None
             /\ ret.res = "Ok" /\ next_direction = None /\ IsUpdate)
            => Last(log').moved = ret.dir]_vars

\* C4 witness: after a completed tick, a first request turned the snake at
\* once.
C4_Witness ==
    /\ Len(log) >= 1
    /\ ret.op = "set_direction"
    /\ ret.first
    /\ ret.res = "Ok"
    /\ next_direction = None
    /\ direction = ret.dir
    /\ direction # previous_direction

\* C5: a buffered request replaces the pending value whatever it was, any
\* other call leaves the pending slot alone, and update commits the pending
\* value into direction and empties the slot.
C5_Buffering ==
    [][/\ IsSetDirection
            => next_direction' =
                 IF ret'.res = "Ok" /\ previous_direction # direction
                 THEN ret'.dir ELSE next_direction
       /\ IsUpdate
            => /\ next_direction' = None
               /\ direction' = IF next_direction # None
                               THEN next_direction ELSE direction]_vars

\* C5 witness: a buffered request has replaced an earlier, different
\* pending value.
C5_Witness ==
    /\ ret.op = "set_direction"
    /\ ret.res = "Ok"
    /\ ret.before \notin {None, ret.dir}
    /\ next_direction = ret.dir

\* C6: the chain is 2 long after Snake::new, grows by exactly 1 on an update
\* that returns Food, keeps its length on any other update, and never
\* shrinks.
C6_Length ==
    [][/\ ret.op = "new" => ChainLen = 2
       /\ IsUpdate
            => ChainLen' = ChainLen + (IF ret'.res = "Food" THEN 1 ELSE 0)
       /\ ChainLen' >= ChainLen]_vars

\* C6 witness: the snake has grown to six cells and then bitten itself.
C6_Witness ==
    /\ \E i \in 1..Len(log) : log[i].ate = "Food"
    /\ ret.op = "update"
    /\ ret.res = "Itself"
    /\ ChainLen = 6

\* C7: when the new head cell is the food cell, update returns Food and
\* keeps the tail, also when that cell is occupied by a body segment;
\* Itself is only returned when the new head cell is not the food cell.
C7_FoodFirst ==
    [][IsUpdate
         => /\ head'.position = food'
                => /\ ret'.res = "Food"
                   /\ tail' = tail
                   /\ Len(body') = Len(body) + 1
            /\ ret'.res = "Itself" => head'.position # food'
            /\ ret'.res \in Outcome]_vars

\* C7 witness: food was eaten on a cell that a body segment occupies.
C7_Witness ==
    /\ ret.op = "update"
    /\ ret.res = "Food"
    /\ \E i \in 2..Len(body) : body[i].position = head.position

\* the scenario of C8: from Snake::new((3,5)), two ticks eat food and make
\* the chain (5,5),(4,5),(3,5),(2,5) moving Right; then three ticks move
\* Down, Left, Up without food on the way
C8_Start ==
    /\ head.position = GridPosition(5, 5)
    /\ Len(body) = 2
    /\ body[1].position = GridPosition(4, 5)
    /\ body[2].position = GridPosition(3, 5)
    /\ tail.position = GridPosition(2, 5)
    /\ direction = "Right"
    /\ previous_direction = "Right"
    /\ next_direction = None

C8_Grown ==
    /\ Len(log) >= 2
    /\ log[1] = [moved |-> "Right", ate |-> "Food"]
    /\ log[2] = [moved |-> "Right", ate |-> "Food"]

C8_Scenario ==
    /\ C8_Grown
    /\ Len(log) = 5
    /\ log[3] = [moved |-> "Down", ate |-> None]
    /\ log[4] = [moved |-> "Left", ate |-> None]
    /\ log[5].moved = "Up"
    /\ food # head.position

\* C8 as stated: the third tick of the scenario returns Itself.
C8_Original == C8_Scenario => log[5].ate = "Itself"

\* C8 amended: the third tick returns no outcome: the head comes back to
\* (4,5), which the tail left on the tick before, and the chain occupies
\* four different cells.
C8_Amended ==
    /\ (C8_Grown /\ Len(log) = 2 /\ ret.op = "update") => C8_Start
    /\ C8_Scenario
         => /\ log[5].ate = None
            /\ head.position = GridPosition(4, 5)
            /\ tail.position = GridPosition(5, 5)
            /\ Cardinality(AllPositions) = 4

\* C8 witness: the scenario has run.
C8_Witness == C8_Scenario /\ ret.op = "update"

(***************************************************************************)
(* main.rs: Game                                                           *)
(***************************************************************************)
\* the snake and food of Game::new (main.rs:64-65)
Game_new_snake == Snake_new(GridPosition(1, 0))

Game_new_food == GridPosition(GRID_SIZE[1] \div 2, GRID_SIZE[2] \div 2)

\* mutant: no cell is ever found among the segments
contains_never(segs, p) == FALSE

\* segments.contains(&position), the test of generate_food_position's loop
contains(segs, p) == p \in segs

\* the positions generate_food_position can return for a snake whose
\* segments() are segs: a sampled cell that segs does not contain
generate_food_position(segs) == {p \in random : p \notin segs}

Init ==
    /\ GRID_SIZE = <<GameGridWidth, GameGridHeight>>
    /\ head = Game_new_snake[1]
    /\ body = Game_new_snake[2]
    /\ tail = Game_new_snake[3]
    /\ direction = Game_new_snake[4]
    /\ previous_direction = Game_new_snake[5]
    /\ next_direction = Game_new_snake[6]
    /\ food = Game_new_food
    /\ game_over = FALSE
    /\ update_segment = 0
    /\ elapsed = 0
    /\ quit = FALSE
    /\ pos = None
    /\ ret = Ret("new", None, None, FALSE, None)
    /\ log = <<>>

\* mutant: restart keeps the food where it is
restart_keeps_food ==
    /\ head' = Game_new_snake[1]
    /\ body' = Game_new_snake[2]
    /\ tail' = Game_new_snake[3]
    /\ direction' = Game_new_snake[4]
    /\ previous_direction' = Game_new_snake[5]
    /\ next_direction' = Game_new_snake[6]
    /\ food' = food
    /\ game_over' = FALSE
    /\ elapsed' = 0

\* Game::restart: the snake, food, game_over and last_update of a new Game
restart ==
    /\ head' = Game_new_snake[1]
    /\ body' = Game_new_snake[2]
    /\ tail' = Game_new_snake[3]
    /\ direction' = Game_new_snake[4]
    /\ previous_direction' = Game_new_snake[5]
    /\ next_direction' = Game_new_snake[6]
    /\ food' = Game_new_food
    /\ game_over' = FALSE
    /\ elapsed' = 0

\* mutant: a restart request is obeyed whether or not the game is over
restarts_always(over, requested) == requested

\* whether a handler calls restart: the game is over and the key or button
\* is the restart one
restarts(over, requested) == over /\ requested

\* mutant: the snake is ticked whether or not the game is over
ticks_now_when_over(over, segment) == segment >= MILLIS_PER_UPDATE

\* mutant: the tick waits until the period has been exceeded
ticks_now_late(over, segment) == ~over /\ segment > MILLIS_PER_UPDATE

\* whether Game::update ticks the snake
ticks_now(over, segment) == ~over /\ segment >= MILLIS_PER_UPDATE

\* what Instant::now() - self.last_update can be when Game::update reads it
Readings == {ShortWait, MILLIS_PER_UPDATE, LongWait}

\* EventHandler::update, called when the clock reads `now`
Game_update ==
    /\ ~quit
    /\ \E now \in Readings :
        /\ now >= elapsed
        /\ IF ticks_now(game_over, now)
           THEN LET ate == Snake_update_returns(food) IN
                /\ ~(ate = "Food" /\ ChainLen >= MaxLen)
                /\ Snake_update(food)
                /\ game_over' = (ate = "Itself")
                /\ IF ate = "Food"
                   THEN food' \in generate_food_position(segments')
                   ELSE food' = food
                /\ ret' = Ret("Game_update", None, ate, FALSE, now)
                /\ elapsed' = 0
                /\ update_segment' = 0
           ELSE /\ update_segment' = now
                /\ elapsed' = now
                /\ ret' = Ret("Game_update", None, "NoTick", FALSE, now)
                /\ UNCHANGED <<snake, food, game_over>>
    /\ UNCHANGED <<GRID_SIZE, quit, pos, log>>

\* In Spec, `ret` records the last call a handler made on the game and what
\* it returned: Game::update, Snake::set_direction, Game::restart or
\* event::quit; a handler that made no call leaves its own name.

\* EventHandler::key_down_event
key_down_event ==
    /\ ~quit
    /\ \E keycode \in KeyCode :
        IF keycode = "Escape"
        THEN /\ quit' = TRUE
             /\ ret' = Ret("quit", None, "quit", FALSE, None)
             /\ UNCHANGED <<snake, food, game_over, elapsed>>
        ELSE IF from_keycode(keycode) # None
        THEN /\ set_direction(from_keycode(keycode))
             /\ ret' = Ret("set_direction", None,
                           set_direction_returns(from_keycode(keycode)),
                           FALSE, None)
             /\ UNCHANGED <<food, game_over, elapsed, quit>>
        ELSE IF restarts(game_over, keycode = "Return")
        THEN /\ restart
             /\ ret' = Ret("restart", None, "restart", FALSE, None)
             /\ UNCHANGED quit
        ELSE /\ ret' = Ret("key_down_event", None, "ignored", FALSE, None)
             /\ UNCHANGED <<snake, food, game_over, elapsed, quit>>
    /\ UNCHANGED <<GRID_SIZE, update_segment, pos, log>>

\* EventHandler::gamepad_button_down_event
gamepad_button_down_event ==
    /\ ~quit
    /\ \E btn \in Button :
        /\ quit' = (btn = "Select")
        /\ IF from_button(btn) # None
           THEN /\ set_direction(from_button(btn))
                /\ ret' = Ret("set_direction", None,
                              set_direction_returns(from_button(btn)),
                              FALSE, None)
                /\ UNCHANGED <<food, game_over, elapsed>>
           ELSE IF restarts(game_over, btn = "Start")
           THEN /\ restart
                /\ ret' = Ret("restart", None, "restart", FALSE, None)
           ELSE /\ ret' = IF btn = "Select"
                          THEN Ret("quit", None, "quit", FALSE, None)
                          ELSE Ret("gamepad_button_down_event", None, "ignored",
                                   FALSE, None)
                /\ UNCHANGED <<snake, food, game_over, elapsed>>
    /\ UNCHANGED <<GRID_SIZE, update_segment, pos, log>>

Next == Game_update \/ key_down_event \/ gamepad_button_down_event

Spec == Init /\ [][Next]_vars

(***************************************************************************)
(* Properties of Spec.                                                     *)
(***************************************************************************)
\* C9: while the game is live, the head is on no cell that another segment
\* of the chain occupies, body or tail.
C9_HeadApart ==
    ~game_over => head.position \notin (Positions(body) \cup {tail.position})

\* C10: whenever the food has just been placed (a new game, a restart, a
\* tick that ate the food), it lies on no cell of the snake, head, body or
\* tail.
C10_FoodOffSnake ==
    (ret.op = "new" \/ ret.res = "restart" \/ ret.res = "Food")
        => food \notin AllPositions

\* C11: segments() holds exactly the cells of the snake: the head cell,
\* every body cell and the tail cell, and no other cell.
C11_SegmentsComplete == segments = AllPositions

\* C13: in every state of the game the head, every body segment, the tail
\* and the food have coordinates inside the grid.
C13_InGrid ==
    /\ InGrid(head.position)
    /\ \A i \in 1..Len(body) : InGrid(body[i].position)
    /\ InGrid(tail.position)
    /\ InGrid(food)

\* C13 witness: a tick moved the head Up across the top edge onto the
\* bottom row, where it ate the food, and the food was placed again.
C13_Witness ==
    /\ ret.op = "Game_update"
    /\ ret.res = "Food"
    /\ previous_direction = "Up"
    /\ body # <<>>
    /\ body[1].position.y = 0
    /\ head.position.y = GRID_SIZE[2] - 1

IsGameUpdate == ret'.op = "Game_update"

\* C15: a call of Game::update ticks the snake exactly when the game is not
\* over and the clock reads at least MILLIS_PER_UPDATE since last_update;
\* it then moves the head by one cell only, however late it is, and resets
\* both the clock and update_segment to zero, so the next tick is a whole
\* period away; a call that does not tick changes neither snake nor food
\* nor game_over.
C15_OneTickPerCall ==
    [][IsGameUpdate =>
         /\ (ret'.res # "NoTick")
              <=> (~game_over /\ ret'.before >= MILLIS_PER_UPDATE)
         /\ ret'.res # "NoTick" =>
              /\ ret'.res \in Outcome
              /\ head'.position = new_from_move(head.position, direction)
              /\ ChainLen' \in {ChainLen, ChainLen + 1}
              /\ elapsed' = 0
              /\ update_segment' = 0
         /\ ret'.res = "NoTick" => UNCHANGED <<snake, food, game_over>>]_vars

\* C15 witness: Game::update was called more than two periods after the
\* last tick and ticked: the clock and update_segment are back at zero.
C15_Witness ==
    /\ ret.op = "Game_update"
    /\ ret.res \in Outcome
    /\ ret.before = LongWait
    /\ ret.before >= 2 * MILLIS_PER_UPDATE
    /\ body # <<>>
    /\ elapsed = 0
    /\ update_segment = 0

\* C16: after every call of Game::update, running or over, update_segment
\* is a fraction of the tick period between 0 and 1 (0 and
\* MILLIS_PER_UPDATE in ms).
C16_FractionInRange ==
    ret.op = "Game_update" => update_segment \in 0..MILLIS_PER_UPDATE

\* C17: restart is called only while the game is over; while the game is
\* running, an input that is neither a direction nor the quit request, the
\* Return key and the Start button among them, leaves snake, food,
\* game_over, the clock and update_segment unchanged.
C17_RestartOnlyWhenOver ==
    [][/\ ret'.op = "restart" => game_over
       /\ (~game_over /\ ret'.op \notin {"Game_update", "set_direction", "quit"})
            => /\ ret'.res = "ignored"
               /\ UNCHANGED <<snake, food, game_over, elapsed, update_segment>>]_vars

\* C17 witness: Return was pressed in a running game that has already
\* grown, and nothing happened.
C17_Witness ==
    /\ ~game_over
    /\ ret.op = "key_down_event"
    /\ ret.res = "ignored"
    /\ body # <<>>
    /\ elapsed > 0

\* C18: at game start and right after every restart the game is not over,
\* the snake is two cells long with its head on (1,0), an empty body and
\* its tail on (0,0), one step behind the head, direction and
\* previous_direction are Right, nothing is pending, and the food is on the
\* centre cell.
C18_InitialState ==
    ret.op \in {"new", "restart"} =>
        /\ ~game_over
        /\ ChainLen = 2
        /\ head = Segment(GridPosition(1, 0), <<"Head", "Right">>)
        /\ body = <<>>
        /\ tail.position = GridPosition(0, 0)
        /\ tail.position = new_from_move(head.position, inverse(direction))
        /\ direction = "Right"
        /\ previous_direction = "Right"
        /\ next_direction = None
        /\ food = GridPosition(GRID_SIZE[1] \div 2, GRID_SIZE[2] \div 2)

\* C18 witness: the game was restarted after it had stayed over for more
\* than two tick periods.
C18_Witness ==
    /\ ret.op = "restart"
    /\ update_segment = LongWait
    /\ elapsed = 0

\* C19: a set_direction call, accepted or rejected, in a running game or in
\* a game that is over, leaves head, body, tail, previous_direction, the
\* food and game_over unchanged.
C19_DirectionOnly ==
    [][ret'.op = "set_direction"
         => UNCHANGED <<head, body, tail, previous_direction, food, game_over>>]_vars

\* C19 witness: a direction request was accepted in a game that is over.
C19_Witness ==
    /\ game_over
    /\ ret.op = "set_direction"
    /\ ret.res = "Ok"
    /\ direction # previous_direction

(***************************************************************************)
(* SpecMove: GridPosition::new_from_move applied repeatedly, in one        *)
(* direction, to any position of the program's grid.  `pos` is the         *)
(* position, `direction` the direction, `log` the positions moved from.    *)
(***************************************************************************)
InitMove ==
    /\ GRID_SIZE = <<GridWidth, GridHeight>>
    /\ pos \in random
    /\ direction \in Direction
    /\ head = Game_new_snake[1]
    /\ body = Game_new_snake[2]
    /\ tail = Game_new_snake[3]
    /\ previous_direction = Game_new_snake[5]
    /\ next_direction = Game_new_snake[6]
    /\ food = Game_new_food
    /\ game_over = FALSE
    /\ update_segment = 0
    /\ elapsed = 0
    /\ quit = FALSE
    /\ ret = Ret("new", None, None, FALSE, None)
    /\ log = <<>>

Move ==
    /\ Len(log) < MaxMoves
    /\ pos' = new_from_move(pos, direction)
    /\ log' = Append(log, pos)
    /\ ret' = Ret("new_from_move", direction, None, FALSE, None)
    /\ UNCHANGED <<GRID_SIZE, snake, food, game_over, update_segment, elapsed, quit>>

NextMove == Move

SpecMove == InitMove /\ [][NextMove]_vars

(***************************************************************************)
(* Properties of SpecMove.                                                 *)
(***************************************************************************)
\* the displacement of one step in direction d, y growing downwards
StepOf(d) ==
    CASE d = "Up" -> <<0, -1>>
      [] d = "Down" -> <<0, 1>>
      [] d = "Left" -> <<-1, 0>>
      [] d = "Right" -> <<1, 0>>

\* C12: for every position p of the grid and every direction d,
\* new_from_move(p, d) is a position of the grid, namely p displaced by one
\* cell in d with each axis reduced by the floor modulo of the grid size:
\* Left from x = 0 gives x = width - 1, Right from x = width - 1 gives x = 0,
\* Up from y = 0 gives y = height - 1, Down from y = height - 1 gives y = 0,
\* the other coordinate is unchanged, and height moves Up (width moves
\* Left) lead back to the starting position.
C12_Wrap ==
    log # <<>> =>
        /\ InGrid(pos)
        /\ pos.x = (Last(log).x + StepOf(direction)[1]) % GRID_SIZE[1]
        /\ pos.y = (Last(log).y + StepOf(direction)[2]) % GRID_SIZE[2]
        /\ (direction = "Left" /\ Last(log).x = 0) => pos.x = GRID_SIZE[1] - 1
        /\ (direction = "Right" /\ Last(log).x = GRID_SIZE[1] - 1) => pos.x = 0
        /\ (direction = "Up" /\ Last(log).y = 0) => pos.y = GRID_SIZE[2] - 1
        /\ (direction = "Down" /\ Last(log).y = GRID_SIZE[2] - 1) => pos.y = 0
        /\ direction \in {"Left", "Right"} => pos.y = Last(log).y
        /\ direction \in {"Up", "Down"} => pos.x = Last(log).x
        /\ (direction \in {"Up", "Down"} /\ Len(log) = GRID_SIZE[2]) => pos = log[1]
        /\ (direction \in {"Left", "Right"} /\ Len(log) = GRID_SIZE[1]) => pos = log[1]

\* C12 witness: width moves Left from (0, 0) went through x = width - 1 and
\* came back to (0, 0).
C12_Witness ==
    /\ direction = "Left"
    /\ Len(log) = GRID_SIZE[1]
    /\ log[1] = GridPosition(0, 0)
    /\ log[2] = GridPosition(GRID_SIZE[1] - 1, 0)
    /\ pos = GridPosition(0, 0)

(***************************************************************************)
(* SpecDraw: DrawParam::from applied to any sprite placed on any cell of   *)
(* the program's grid.  `head` is the positioned sprite.                   *)
(***************************************************************************)
InitDraw ==
    /\ GRID_SIZE = <<GridWidth, GridHeight>>
    /\ \E p \in random, sprite \in Sprite : head = Segment(p, sprite)
    /\ body = Game_new_snake[2]
    /\ tail = Game_new_snake[3]
    /\ direction = Game_new_snake[4]
    /\ previous_direction = Game_new_snake[5]
    /\ next_direction = Game_new_snake[6]
    /\ food = Game_new_food
    /\ game_over = FALSE
    /\ update_segment = 0
    /\ elapsed = 0
    /\ quit = FALSE
    /\ pos = None
    /\ ret = Ret("new", None, None, FALSE, None)
    /\ log = <<>>

Draw ==
    /\ ret.op = "new"
    /\ ret' = Ret("DrawParam_from", None, DrawParam_from(head), FALSE, None)
    /\ UNCHANGED <<GRID_SIZE, snake, food, game_over, update_segment, elapsed,
                   quit, pos, log>>

NextDraw == Draw

SpecDraw == InitDraw /\ [][NextDraw]_vars

(***************************************************************************)
(* Properties of SpecDraw.                                                 *)
(***************************************************************************)
Straight == {<<a, inverse(a)>> : a \in Direction}

Turning == {<<a, b>> \in Direction \X Direction : a # b /\ b # inverse(a)}

RegionsOf(pairs) == {Segment_src(pair[1], pair[2]) : pair \in pairs}

\* C14: the sprite region of an interior segment depends only on the
\* unordered pair of its two directions: both orders of each of the 12 pairs
\* of different directions select the same region, the straight pairs
\* select exactly 2 regions, the turning pairs exactly 4 others, and the
\* fatal error is raised for a pair of equal directions and for no other.
C14_SpritePairs ==
    /\ \A a \in Direction, b \in Direction :
         /\ a # b => (Segment_src(a, b) = Segment_src(b, a)
                        /\ Segment_src(a, b) # Panic)
         /\ a = b => Segment_src(a, b) = Panic
    /\ Cardinality(Straight \cup Turning) = 12
    /\ Cardinality(RegionsOf(Straight)) = 2
    /\ Cardinality(RegionsOf(Turning)) = 4
    /\ RegionsOf(Straight) \cap RegionsOf(Turning) = {}
    /\ (ret.op = "DrawParam_from" /\ head.sprite[1] = "Segment")
         => IF head.sprite[2] = head.sprite[3]
            THEN ret.res = Panic
            ELSE /\ ret.res # Panic
                 /\ ret.res[1] = Segment_src(head.sprite[3], head.sprite[2])
                 /\ ret.res[2] = head.position

\* C14 witness: the segment sprite from Right to Left has been drawn with
\* the region of the sprite from Left to Right.
C14_Witness ==
    /\ ret.op = "DrawParam_from"
    /\ head.sprite = <<"Segment", "Right", "Left">>
    /\ ret.res # Panic
    /\ ret.res[1] = Segment_src("Left", "Right")

(***************************************************************************)
(* SpecFood: the sampling loop of Game::generate_food_position, step by    *)
(* step, on the scaled-down grid, for a snake whose head and body cover    *)
(* any set of cells but the empty one.  `pos` is the local `position`,     *)
(* which holds its first sample (main.rs:83) from the start; ret.res tells *)
(* where the call is: "sampling" (the sample is not yet tested) or         *)
(* "returned", and ret.before holds the sample rejected last, if any.      *)
(***************************************************************************)
RECURSIVE SegmentsOn(_)
\* segments lying on the cells of S, row by row
SegmentsOn(S) ==
    IF S = {} THEN <<>>
    ELSE LET p == CHOOSE q \in S :
                    \A r \in S : q.y < r.y \/ (q.y = r.y /\ q.x <= r.x)
         IN <<Segment(p, <<"Segment", "Left", "Right">>)>> \o SegmentsOn(S \ {p})

InitFood ==
    /\ GRID_SIZE = <<GameGridWidth, GameGridHeight>>
    /\ \E S \in (SUBSET random) \ {{}} :
        /\ head = Segment(SegmentsOn(S)[1].position, <<"Head", "Right">>)
        /\ body = Tail(SegmentsOn(S))
    /\ tail = Game_new_snake[3]
    /\ direction = Game_new_snake[4]
    /\ previous_direction = Game_new_snake[5]
    /\ next_direction = Game_new_snake[6]
    /\ food = head.position
    /\ game_over = FALSE
    /\ update_segment = 0
    /\ elapsed = 0
    /\ quit = FALSE
    /\ pos \in random
    /\ ret = Ret("generate_food_position", None, "sampling", FALSE, <<>>)
    /\ log = <<>>

\* main.rs:84-85: the position is one of the segments, and
\* GridPosition::random returns p
Sample(p) ==
    /\ ret.res = "sampling"
    /\ contains(segments, pos)
    /\ p \in random
    /\ pos' = p
    /\ ret' = Ret("generate_food_position", None, "sampling", FALSE, <<pos>>)
    /\ UNCHANGED <<GRID_SIZE, snake, food, game_over, update_segment, elapsed,
                   quit, log>>

\* main.rs:84 and main.rs:87: the loop ends and the position is returned
\* (and made the food's, main.rs:127)
Return ==
    /\ ret.res = "sampling"
    /\ ~contains(segments, pos)
    /\ food' = pos
    /\ ret' = Ret("generate_food_position", None, "returned", FALSE, ret.before)
    /\ UNCHANGED <<GRID_SIZE, snake, game_over, update_segment, elapsed, quit,
                   pos, log>>

\* the cells of the scaled-down grid
GameCells ==
    {GridPosition(x, y) : x \in 0..(GameGridWidth - 1), y \in 0..(GameGridHeight - 1)}

NextFood == (\E p \in GameCells : Sample(p)) \/ Return

SpecFood == InitFood /\ [][NextFood]_vars

\* the program keeps running, and the random generator returns every cell
\* again and again
FairFood == WF_vars(Return) /\ \A p \in GameCells : WF_vars(Sample(p))

SpecFoodFair == SpecFood /\ FairFood

(***************************************************************************)
(* Properties of SpecFoodFair.                                             *)
(***************************************************************************)
Free == random \ segments

\* C20: generate_food_position never returns a cell of segments(); when
\* exactly one cell of the grid is not in segments(), the loop eventually
\* ends, under fair sampling, and returns that cell; when every cell is
\* in segments(), it never returns.
C20_Placement ==
    /\ [](ret.res = "returned" => (pos \notin segments /\ food = pos))
    /\ (Cardinality(Free) = 1) ~> (ret.res = "returned" /\ Free = {pos})
    /\ [](Free = {} => ret.res # "returned")

\* C20 witness: all cells but one were forbidden, a forbidden sample was
\* rejected, and the call returned the remaining cell.
C20_Witness ==
    /\ Cardinality(Free) = 1
    /\ Cardinality(segments) = Cardinality(random) - 1
    /\ ret.res = "returned"
    /\ ret.before # <<>>
    /\ ret.before[1] \in segments
    /\ Free = {food}

(***************************************************************************)
(* Further properties of SpecSnake.                                        *)
(***************************************************************************)
\* the cells of the body once the head has advanced and the oldest body
\* cell has become the tail: the cell the head left, then the cells of the
\* body but the last
RemainingCells ==
    SubSeq(<<head.position>> \o [i \in 1..Len(body) |-> body[i].position],
           1, Len(body))

\* C21: update returns Itself exactly when the new head cell is not the
\* food cell and is the cell of at least one body segment that remains
\* after the oldest body cell has been moved to the tail; when it is
\* neither the food cell nor such a cell, update returns no outcome.
C21_ItselfIff ==
    [][IsUpdate =>
         LET hit == \E i \in 1..Len(RemainingCells) :
                        RemainingCells[i] = head'.position
         IN /\ head'.position = new_from_move(head.position, direction)
            /\ (ret'.res = "Itself") <=> (head'.position # food' /\ hit)
            /\ (ret'.res = None) <=> (head'.position # food' /\ ~hit)
            /\ ret'.res = "Itself"
                 => \E i \in 1..Len(body') : body'[i].position = head'.position]_vars

\* C21 witness: a tick without food brought the head onto a cell of the
\* remaining body, away from the tail, and returned Itself.
C21_Witness ==
    /\ ret.op = "update"
    /\ ret.res = "Itself"
    /\ food # head.position
    /\ head.position \in Positions(body)
    /\ head.position # tail.position

\* the guards of update and of the sprite lookup that end the program: the
\* next update finds a body that is not empty when it pops its last
\* element, that element carries a Sprite::Segment, and every body segment,
\* the one the next update pushes included, is stored with two different
\* directions, so that its sprite lookup finds a region
NoFatalGuard ==
    /\ LET b == pushed_body
       IN /\ ~pop_back_panics(b)
          /\ ~new_tail_panics(b)
          /\ b[1].sprite[2] # b[1].sprite[3]
    /\ \A i \in 1..Len(body) :
         /\ body[i].sprite[1] = "Segment"
         /\ body[i].sprite[2] # body[i].sprite[3]
         /\ Segment_src(body[i].sprite[2], body[i].sprite[3]) # Panic

\* C22: in every state reached by set_direction and update calls from
\* Snake::new, none of the fatal guards can be reached: the body is not
\* empty when update pops it, the popped element is a Sprite::Segment, and
\* no body segment has two identical directions.
C22_NoFatalGuard == []NoFatalGuard

\* C22 witness: after ticks that turned, ate and popped, the body holds a
\* corner segment and a straight one, and the tail has been replaced by a
\* popped segment.
C22_Witness ==
    /\ ret.op = "update"
    /\ \E i \in 1..Len(body) : body[i].sprite[2] # inverse(body[i].sprite[3])
    /\ \E i \in 1..Len(body) : body[i].sprite[2] = inverse(body[i].sprite[3])
    /\ tail.sprite # <<"Tail", "Right">>
    /\ \E i \in 1..Len(log) : log[i].ate = None

\* the cell of the element next to body[i] toward the head
Ahead(i) == IF i = 1 THEN head.position ELSE body[i - 1].position

\* the cell of the element next to body[i] toward the tail
Behind(i) == IF i = Len(body) THEN tail.position ELSE body[i + 1].position

\* the head sprite points in previous_direction; from the cell of every
\* body segment Segment(src, tgt), one move in tgt leads to the cell of the
\* next element toward the head and one move in src to the cell of the next
\* element toward the tail; and from the tail's cell one move in the tail
\* sprite's direction leads to the cell of the element ahead of the tail
ChainConsistent ==
    /\ head.sprite = <<"Head", previous_direction>>
    /\ \A i \in 1..Len(body) :
         /\ body[i].sprite[1] = "Segment"
         /\ new_from_move(body[i].position, body[i].sprite[3]) = Ahead(i)
         /\ new_from_move(body[i].position, body[i].sprite[2]) = Behind(i)
    /\ tail.sprite[1] = "Tail"
    /\ new_from_move(tail.position, tail.sprite[2])
         = IF body = <<>> THEN head.position ELSE body[Len(body)].position

\* C24: in every reachable state the chain head, body, tail is consistent
\* in adjacency and orientation: the head sprite's direction is
\* previous_direction, every body segment's tgt leads to the element toward
\* the head and its src to the element toward the tail, and the tail
\* sprite's direction leads to the element ahead of it.
C24_ChainConsistent == []ChainConsistent

\* C24 witness: a chain with two body segments whose tail was popped from a
\* corner: the tail and the head point in different directions.
C24_Witness ==
    /\ ret.op = "update"
    /\ Len(body) >= 2
    /\ \E i \in 1..Len(body) : body[i].sprite[2] # inverse(body[i].sprite[3])
    /\ \E i \in 1..Len(log) : log[i].ate = None
    /\ tail.sprite[2] # head.sprite[2]
    /\ direction # previous_direction

(***************************************************************************)
(* Further properties of Spec.                                             *)
(***************************************************************************)
\* C23: game_over becomes true only in a Game::update whose tick returned
\* Itself and becomes false only in a restart; while it is true a
\* Game::update does not tick, whatever the clock reads, and every step
\* but a restart leaves the cells of the snake, the food and game_over as
\* they are.
C23_GameOverLifecycle ==
    [][/\ (~game_over /\ game_over')
            => (ret'.op = "Game_update" /\ ret'.res = "Itself")
       /\ (game_over /\ ~game_over') => ret'.op = "restart"
       /\ (game_over /\ IsGameUpdate)
            => (ret'.res = "NoTick" /\ UNCHANGED <<snake, food, game_over>>)
       /\ (game_over /\ ret'.op # "restart")
            => /\ game_over'
               /\ food' = food
               /\ head'.position = head.position
               /\ tail'.position = tail.position
               /\ Len(body') = Len(body)
               /\ \A i \in 1..Len(body) : body'[i].position = body[i].position
       /\ (ret'.op = "Game_update" /\ ret'.res = "Itself") => game_over']_vars

\* C23 witness: the game is over, and a Game::update called more than two
\* periods after the fatal tick did not tick.
C23_Witness ==
    /\ game_over
    /\ ret.op = "Game_update"
    /\ ret.res = "NoTick"
    /\ ret.before = LongWait
    /\ head.position \in Positions(body)

====
